---- MODULE Spec2Model ----
(***************************************************************************)
(* gosigsrv: a WebRTC signalling relay (src/gosigsrv.go, lines 1-337).     *)
(*                                                                         *)
(* The four HTTP handlers (signinHandler, signoutHandler, messageHandler,  *)
(* waitHandler) run one goroutine per request over the package globals     *)
(* peers, peerIDCount and peerMutex.  Every request slot of Procs runs one *)
(* handler at a time.  A handler is cut into steps so that the steps of    *)
(* different handlers can interleave: a step is one write of the shared    *)
(* state (a field of a peerInfo, the map, the counter, a channel or mutex  *)
(* operation) with the reads and the local computation that follow it up   *)
(* to the next write; the first step of a request is what it reads before  *)
(* its first write.                                                        *)
(*                                                                         *)
(*   Spec      requests are served one at a time: a handler runs until it  *)
(*             returns or suspends on a channel before another one runs    *)
(*             (the way the tests of gosigsrv_test.go drive the handlers). *)
(*   SpecConc  the steps of the handlers interleave freely (net/http runs  *)
(*             every request in its own goroutine).                        *)
(***************************************************************************)
EXTENDS Integers, Sequences, FiniteSets, TLC

\* ------------------------------------------------------------------ bounds
\* number of request slots (goroutines serving a request at the same time)
NProcs == 3
\* number of peerInfo objects ever allocated (successful sign-ins)
MaxPeers == 3
\* number of message requests that reach the pairing step of messageHandler
MaxMsgs == 3
\* number of sign_out requests that find their peer
MaxSignouts == 1
\* capacity of a peer's channel; 100 in the source (gosigsrv.go:36), scaled
\* down so that a full channel is reachable
peerMessageBufferSize == 2

Procs == 1 .. NProcs

\* ------------------------------------------------------- program constants
client == 0
server == 1
peerIDParamName == "peer_id"
toParamName == "to"
serverPrefix == "renderingserver_"

StatusOK == 200
StatusBadRequest == 400
StatusServiceUnavailable == 503

\* ------------------------------------------------------------ request data
Names == {"alice", "renderingserver_bob"}
\* names that only resemble a server's, one with a formatting verb in it
\* (sign_in?my_renderingserver_%25d=)
OddNames == {"renderingserver", "my_renderingserver_%d"}
AllNames == Names \cup OddNames

\* req.URL.Query()[k], the empty string when the query has no k
ParamOf(q, k) == IF k \in DOMAIN q THEN q[k] ELSE ""

\* the body of the n-th message request from the last: a client writes into it
\* who sends it to whom, so no two requests carry the same body
BodyOf(q, n) ==
  "sdp" \o ToString(n) \o " " \o ParamOf(q, "peer_id") \o ">" \o ParamOf(q, "to")

\* fmt.Sprintf("%d", n)
FormatID(n) == ToString(n)

\* the ids the server has handed out so far, and one it never hands out
IDsUpTo(n) == {FormatID(i) : i \in 1 .. n}
UnknownID == "invalid"

\* req.URL.Query(): a map from keys to (first) values
EmptyQuery == [k \in {} |-> ""]
NameQuery(n) == [k \in {n} |-> ""]
PeerQuery(i) == [k \in {peerIDParamName} |-> i]
MsgQuery(i, j) == [k \in {peerIDParamName, toParamName} |->
                     IF k = peerIDParamName THEN i ELSE j]

\* a request to the handler of a path
Request(handler, method, q, body) ==
  [handler |-> handler, method |-> method, query |-> q, body |-> body]
NoRequest == Request("none", "", EmptyQuery, "")

\* the queries that name peers of ids: none, one peer, a sender and a recipient
NoQueries == {EmptyQuery}
\* the queries of a sign-in that names no peer: no key, a key with a value
\* (sign_in?name=alice), the empty key (sign_in?=)
NamelessQueries == {EmptyQuery, [k \in {"name"} |-> "alice"], NameQuery("")}
PeerQueries(ids) == {PeerQuery(i) : i \in ids}
MsgQueries(ids) == {MsgQuery(i, j) : i \in ids, j \in ids}

\* the requests of the clients, the n-th message from the last among them; the
\* strict ones have the method and the parameters their handler asks for, and
\* the plain names
SigninRequests(strict) ==
  {Request("signin", "GET", NameQuery(n), "") : n \in (IF strict THEN Names ELSE AllNames)}
    \cup {Request("signin", "POST", q, "") : q \in (IF strict THEN {} ELSE NoQueries)}
    \cup {Request("signin", "GET", q, "") : q \in (IF strict THEN {} ELSE NamelessQueries)}
SignoutRequests(ids, strict) ==
  {Request("signout", "GET", q, "") : q \in PeerQueries(ids)}
    \cup {Request("signout", m, q, "") : m \in (IF strict THEN {} ELSE {"GET", "POST"}), q \in NoQueries}
MessageRequests(ids, strict, n) ==
  {Request("message", "POST", q, BodyOf(q, n)) : q \in MsgQueries(ids)}
    \cup {Request("message", "POST", q, BodyOf(q, n)) :
            q \in (IF strict THEN {} ELSE NoQueries)}
    \cup {Request("message", "GET", q, "") : q \in (IF strict THEN {} ELSE NoQueries)}
WaitRequests(ids, strict) ==
  {Request("wait", "GET", q, "") : q \in PeerQueries(ids)}
    \cup {Request("wait", m, q, "") : m \in (IF strict THEN {} ELSE {"GET", "POST"}), q \in NoQueries}

\* --------------------------------------------------------------- variables
VARIABLES
  peerIDCount,  \* var peerIDCount uint
  peerMutex,    \* var peerMutex sync.Mutex: 0 unlocked, else the holder
  peers,        \* var peers map[string]*peerInfo: id -> address in heap
  heap,         \* the peerInfo objects allocated so far, by address
  pc,           \* pc[p]: where request slot p stands in its handler
  loc,          \* loc[p]: the local variables of the handler p runs
  resp,         \* the response written by the last step, NoResp if none was
  budget,       \* the requests the clients may still make (model bound)
  cur,          \* the request slots that serve: one slot under Spec, several
                \* under SpecConc and SpecConcFair
  pre,          \* the last request made, peers, heap and peerIDCount when it was made, and
                \* the peers whose messages had been answered 200 by then
                \* (Spec only)
  crashed       \* the runtime has stopped the process (fatal map race)

vars == <<peerIDCount, peerMutex, peers, heap, pc, loc, resp, budget, cur, pre, crashed>>

\* ------------------------------------------------------------------ helpers
\* strings.Index(name, "renderingserver_") >= 0, or strings.Contains
ContainsServerPrefix(name) ==
  \E i \in 1 .. Len(name) - Len(serverPrefix) + 1 :
    SubSeq(name, i, i + Len(serverPrefix) - 1) = serverPrefix
\* strings.Index(name, "renderingserver_") == 0
HasServerPrefix(name) ==
  /\ Len(name) >= Len(serverPrefix)
  /\ SubSeq(name, 1, Len(serverPrefix)) = serverPrefix

\* peerInfo.Kind: the zero value is client
KindOf(name) == IF HasServerPrefix(name) THEN server ELSE client

\* fmt.Sprintf("%s,%s,1", Name, ID) + fmt.Sprintln()
PeerLine(name, id) == name \o "," \o id \o ",1" \o "\n"

\* fmt.Fprintf(res, format) with no operands (fmt.doPrintf): text is copied up
\* to a '%'; after it flags, a width and a precision are skipped; the verb that
\* follows is written as '%' if it is '%' and as %!v(MISSING) otherwise, and a
\* format that ends before its verb gets %!(NOVERB). (Argument indexes and '*'
\* are left out: no name here has '[' or '*'.)
Flags == {"#", "0", "+", "-", " "}
Digits == {"0", "1", "2", "3", "4", "5", "6", "7", "8", "9"}
CharAt(s, i) == SubSeq(s, i, i)
RECURSIVE SkipIn(_, _, _)
SkipIn(s, i, chars) ==
  IF i <= Len(s) /\ CharAt(s, i) \in chars THEN SkipIn(s, i + 1, chars) ELSE i
\* where the verb of the '%' at i is
VerbAt(s, i) ==
  LET w == SkipIn(s, SkipIn(s, i + 1, Flags), Digits) IN
    IF w <= Len(s) /\ CharAt(s, w) = "." THEN SkipIn(s, w + 1, Digits) ELSE w
RECURSIVE SprintfFrom(_, _)
SprintfFrom(s, i) ==
  IF i > Len(s) THEN ""
  ELSE IF CharAt(s, i) # "%" THEN CharAt(s, i) \o SprintfFrom(s, i + 1)
  ELSE LET v == VerbAt(s, i) IN
    IF v > Len(s) THEN "%!(NOVERB)"
    ELSE (IF CharAt(s, v) = "%" THEN "%" ELSE "%!" \o CharAt(s, v) \o "(MISSING)")
           \o SprintfFrom(s, v + 1)
Sprintf(format) == SprintfFrom(format, 1)
\* line 169: the response string is the format; it is held here line by line,
\* and as no verb runs over the ",id,1\n" that ends a line, formatting it whole
\* is formatting its lines
Fprintf(lines) == [i \in DOMAIN lines |-> Sprintf(lines[i])]

\* &peerMsg{FromID, Message}
PeerMsg(fromID, message) == [FromID |-> fromID, Message |-> message]

\* a buffer that takes the entry at its front
EnqueueInFront(ch, m) == <<m>> \o ch
\* ch <- m: the entry goes to the back of the buffer
Enqueue(ch, m) == Append(ch, m)
ChanSend(h, a, m) == [h EXCEPT ![a].Channel = Enqueue(@, m)]

\* <-ch: the entry received is the one at the front of the buffer
Dequeued(ch) == Head(ch)
\* a receive that reads the entry and leaves it in the buffer
RemainingAll(ch) == ch
Remaining(ch) == Tail(ch)
ChanRecv(h, a) == [h EXCEPT ![a].Channel = Remaining(@)]

\* <-ch proceeds when the buffer holds an entry, else it waits
CanRecv(h, a) == Len(h[a].Channel) > 0

\* a buffer without a limit: a send never waits
CanSendAlways(h, a) == TRUE
\* len(ch) < cap(ch): a send on ch proceeds, else it waits
CanSend(h, a) == Len(h[a].Channel) < peerMessageBufferSize

NoLoc ==
  [op |-> "none", name |-> "", kind |-> client, ID |-> "", me |-> 0,
   line |-> "", keys0 |-> {}, seen |-> {}, pInfo |-> 0,
   from |-> 0, to |-> 0, peerID |-> "", body |-> "", out |-> <<>>,
   gone |-> FALSE]

\* a response: status, Pragma header, body (the strings written, in order)
NoResp == [op |-> "none", status |-> 0, pragma |-> "", body |-> <<>>]
Response(op, status, pragma, body) ==
  [op |-> op, status |-> status, pragma |-> pragma, body |-> body]

\* http.Error(res, text, code); pragma is the Pragma header set before, if any
HttpErrorWith(op, text, code, pragma) == Response(op, code, pragma, <<text \o "\n">>)
\* the text written without a status line: net/http then answers 200
FprintOnly(op, text, code) == Response(op, StatusOK, "", <<text \o "\n">>)
HttpError(op, text, code) == HttpErrorWith(op, text, code, "")

NoPre == [peers |-> <<>>, heap |-> <<>>, count |-> 0, req |-> NoRequest, sent |-> {}]

Addrs == 1 .. Len(heap)

\* the requests the clients make in one run: how many sign-ins, messages and
\* sign-outs that pass the checks of their handler (waits are not limited), and
\* whether all requests are strict and name ids the server has handed out
Workload(np, nm, no, strict) == [peers |-> np, msgs |-> nm, outs |-> no, strict |-> strict]
Workloads ==
  {Workload(MaxPeers, MaxMsgs - 1, MaxSignouts, TRUE),
   Workload(MaxPeers - 1, MaxMsgs, MaxSignouts - 1, TRUE),
   Workload(MaxPeers - 1, MaxMsgs - 1, MaxSignouts, FALSE)}
WorkloadsConc == {Workload(MaxPeers - 1, MaxMsgs - 1, MaxSignouts, TRUE)}
WorkloadsConcFair ==
  {Workload(MaxPeers - 1, MaxMsgs - 2, MaxSignouts - 1, TRUE),
   Workload(MaxPeers - 2, MaxMsgs - 2, MaxSignouts, TRUE)}

\* ------------------------------------------------------------------- Init
Start(ws, slots) ==
  /\ peerIDCount = 0
  /\ peerMutex = 0
  /\ peers = [k \in {} |-> 0]
  /\ heap = <<>>
  /\ pc = [p \in Procs |-> "idle"]
  /\ loc = [p \in Procs |-> NoLoc]
  /\ resp = NoResp
  /\ budget \in ws
  /\ cur = slots
  /\ pre = NoPre
  /\ crashed = FALSE

\* the request slot of a client that makes its requests one after the other
Driver == 1

\* the request slots of SpecConc: all but one
Pool == 1 .. NProcs - 1

Init == Start(Workloads, {Driver})
InitConc == Start(WorkloadsConc, Pool)
InitConcFair == Start(WorkloadsConcFair, Procs)

\* request slot p may take a step
Scheduled(p) == ~crashed /\ p \in cur
\* request slot p may take a request
Idle(p) == Scheduled(p) /\ pc[p] = "idle"
\* the peers whose messages have been answered 200: those before the last
\* request, and its sender if it was a message and the answer is 200
Senders ==
  pre.sent \cup (IF resp.op = "message" /\ resp.status = StatusOK
                   THEN {pre.req.query[peerIDParamName]}
                   ELSE {})
\* a handler starts on request r
Accept(r) ==
  /\ pre' = IF cur # {Driver} THEN pre
                       ELSE [peers |-> peers, heap |-> heap, count |-> peerIDCount,
                             req |-> r, sent |-> Senders]
  /\ UNCHANGED <<crashed, cur>>
\* what a step that ends no request leaves alone
Quiet == resp' = NoResp /\ UNCHANGED <<budget, crashed, cur, pre>>
\* what a step that ends a request with response r leaves alone
Reply(r) == resp' = r /\ UNCHANGED <<budget, crashed, cur, pre>>
\* the request is refused before it touched anything
Refuse(r) ==
  /\ resp' = r
  /\ UNCHANGED <<peerIDCount, peerMutex, peers, heap, pc, loc, budget>>
\* the handler of p returns
Return(p) == pc' = [pc EXCEPT ![p] = "idle"] /\ loc' = [loc EXCEPT ![p] = NoLoc]

\* --------------------------------------------------------------- sign_in
\* a Lock that never waits
MutexNeverHeld(m) == TRUE
\* sync.Mutex: Lock proceeds only on an unlocked mutex
MutexFree(m) == m = 0

\* a loop that takes any key for the name
NameKeysAny(q) == DOMAIN q
\* lines 118-123: the keys of the query whose first value is empty; the loop
\* stops at the first it meets, in the order of the map's iteration
NameKeys(q) == {k \in DOMAIN q : q[k] = ""}
\* lines 116-123: the values name can have after the loop
NamesFound(q) == IF NameKeys(q) = {} THEN {""} ELSE NameKeys(q)

\* lines 112-140: method, name, kind, peerMutex.Lock()
StartSignin(p, r) ==
  /\ Idle(p)
  /\ r.handler = "signin"
  /\ Accept(r)
  /\ IF r.method # "GET"
       THEN Refuse(HttpError("signin", "Bad request", StatusBadRequest))
       ELSE \E name \in NamesFound(r.query) :
         IF name = ""
           THEN Refuse(HttpError("signin", "No name", StatusBadRequest))
           ELSE /\ budget.peers > 0
                /\ budget' = [budget EXCEPT !.peers = @ - 1]
                /\ MutexFree(peerMutex)
                /\ peerMutex' = p
                /\ loc' = [loc EXCEPT ![p] = [NoLoc EXCEPT !.op = "signin", !.name = name,
                                                          !.kind = KindOf(name)]]
                /\ pc' = [pc EXCEPT ![p] = "si_incr"]
                /\ resp' = NoResp
                /\ UNCHANGED <<peerIDCount, peers, heap>>

\* line 141: peerIDCount++ (a uint; the bound MaxPeers keeps it far from 2^64)
NextCount(n) == n + 1

SigninIncr(p) ==
  /\ Scheduled(p)
  /\ pc[p] = "si_incr"
  /\ peerIDCount' = NextCount(peerIDCount)
  /\ pc' = [pc EXCEPT ![p] = "si_publish"]
  /\ Quiet
  /\ UNCHANGED <<peerMutex, peers, heap, loc>>

\* the peerInfo of lines 130-142, as it is when line 145 publishes it
NewPeerInfo(name, kind, id) ==
  [Kind |-> kind, Name |-> name, ID |-> id, Channel |-> <<>>, ConnectedWith |-> ""]

\* peers[id] = ptr
MapInsert(m, id, a) == [k \in DOMAIN m \cup {id} |-> IF k = id THEN a ELSE m[k]]

\* a delete that empties the map
MapDeleteAll(m, id) == [k \in {} |-> 0]
\* delete(peers, id)
MapDelete(m, id) == [k \in DOMAIN m \ {id} |-> m[k]]

\* lines 142-151: the id is read from the counter, peerMutex.Unlock(),
\* peers[peerInfo.ID] = &peerInfo, Pragma, own descriptor line
SigninPublish(p) ==
  /\ Scheduled(p)
  /\ pc[p] = "si_publish"
  /\ LET a == Len(heap) + 1
         l == loc[p]
         id == FormatID(peerIDCount)
         line == PeerLine(l.name, id) IN
       /\ heap' = Append(heap, NewPeerInfo(l.name, l.kind, id))
       /\ peers' = MapInsert(peers, id, a)
       /\ loc' = [loc EXCEPT ![p].ID = id, ![p].me = a, ![p].line = line,
                             ![p].out = <<line>>,
                             ![p].keys0 = DOMAIN peers \cup {id}, ![p].seen = {}]
  /\ peerMutex' = 0
  /\ pc' = [pc EXCEPT ![p] = "si_range"]
  /\ Quiet
  /\ UNCHANGED peerIDCount

\* a filter that forgets the test of ConnectedWith
EligiblePairedToo(h, pID, pInfo, id, kind) == pID # id /\ h[pInfo].Kind # kind
\* line 155: the filter of the peers a newcomer is told about
Eligible(h, pID, pInfo, id, kind) ==
  /\ pID # id
  /\ h[pInfo].Kind # kind
  /\ h[pInfo].ConnectedWith = ""

\* line 160: len(pInfo.Channel) < cap(pInfo.Channel)
HasRoom(h, a) == Len(h[a].Channel) < peerMessageBufferSize

\* lines 154-160 and 168-169: one iteration of range peers up to the test of
\* line 160, or the end of the loop and the response.  An entry deleted before
\* it is reached is not produced, one inserted during the loop may be produced
\* or not.  A notice for a counterpart without room is dropped (line 163).
SigninRange(p) ==
  /\ Scheduled(p)
  /\ pc[p] = "si_range"
  /\ LET l == loc[p] IN
       \/ \E pID \in DOMAIN peers \ l.seen :
            LET pInfo == peers[pID] IN
              /\ IF Eligible(heap, pID, pInfo, l.ID, l.kind)
                   THEN /\ loc' = [loc EXCEPT ![p].seen = @ \cup {pID}, ![p].pInfo = pInfo,
                                     ![p].out = Append(@, PeerLine(heap[pInfo].Name, heap[pInfo].ID))]
                        /\ pc' = [pc EXCEPT ![p] = IF HasRoom(heap, pInfo) THEN "si_send"
                                                                             ELSE "si_range"]
                   ELSE /\ loc' = [loc EXCEPT ![p].seen = @ \cup {pID}]
                        /\ UNCHANGED pc
              /\ Quiet
       \/ /\ (l.keys0 \cap DOMAIN peers) \subseteq l.seen
          /\ Reply(Response("signin", StatusOK, l.ID, Fprintf(l.out)))
          /\ Return(p)
  /\ UNCHANGED <<peerIDCount, peerMutex, peers, heap>>

\* a notice that carries the id of the peer that signs in
NoticeWithNewcomerID(h, l) == PeerMsg(l.ID, l.line)
\* line 161: &peerMsg{pInfo.ID, peerInfoString}, l the locals of the handler
Notice(h, l) == PeerMsg(h[l.pInfo].ID, l.line)

\* line 161: pInfo.Channel <- notice; a send on a full channel waits
SigninSend(p) ==
  /\ Scheduled(p)
  /\ pc[p] = "si_send"
  /\ CanSend(heap, loc[p].pInfo)
  /\ heap' = ChanSend(heap, loc[p].pInfo, Notice(heap, loc[p]))
  /\ pc' = [pc EXCEPT ![p] = "si_range"]
  /\ Quiet
  /\ UNCHANGED <<peerIDCount, peerMutex, peers, loc>>

\* --------------------------------------------------------------- sign_out
\* lines 182-188: peer_id, the empty string when the query has none
SignoutPeerID(q) == ParamOf(q, peerIDParamName)

\* a sign-out that clears nothing
PeersToClearNone(m, h, peer) == {}
\* lines 196-198: the peers whose ConnectedWith a sign-out of peer clears
PeersToClear(m, h, peer) ==
  IF h[peer].ConnectedWith # "" /\ h[peer].ConnectedWith \in DOMAIN m
    THEN {m[h[peer].ConnectedWith]}
    ELSE {}

\* lines 178-198: method, peer_id, lookup, peer.ConnectedWith and the lookup
\* of the connected peer
StartSignout(p, r) ==
  /\ Idle(p)
  /\ r.handler = "signout"
  /\ Accept(r)
  /\ IF r.method # "GET"
       THEN Refuse(HttpError("signout", "Bad request", StatusBadRequest))
       ELSE IF SignoutPeerID(r.query) \notin DOMAIN peers
         THEN Refuse(HttpError("signout", "Unknown peer", StatusBadRequest))
         ELSE LET peer == peers[SignoutPeerID(r.query)]
                  cs == PeersToClear(peers, heap, peer) IN
              /\ budget.outs > 0
              /\ budget' = [budget EXCEPT !.outs = @ - 1]
              /\ \E c \in (IF cs = {} THEN {0} ELSE cs) :
                   loc' = [loc EXCEPT ![p] = [NoLoc EXCEPT !.op = "signout",
                                                         !.peerID = SignoutPeerID(r.query),
                                                         !.me = peer, !.pInfo = c]]
              /\ pc' = [pc EXCEPT ![p] = IF cs = {} THEN "so_delete" ELSE "so_clear"]
              /\ resp' = NoResp
              /\ UNCHANGED <<peerIDCount, peerMutex, peers, heap>>

\* line 199: connectedPeer.ConnectedWith = ""
SignoutClear(p) ==
  /\ Scheduled(p)
  /\ pc[p] = "so_clear"
  /\ heap' = [heap EXCEPT ![loc[p].pInfo].ConnectedWith = ""]
  /\ pc' = [pc EXCEPT ![p] = "so_delete"]
  /\ Quiet
  /\ UNCHANGED <<peerIDCount, peerMutex, peers, loc>>

\* the addresses the handlers other than that of p hold
HeldByOthers(p) ==
  UNION {{loc[q].me, loc[q].pInfo, loc[q].from, loc[q].to} : q \in Procs \ {p}}

\* the garbage collector: a peerInfo that neither the map nor a handler refers
\* to is gone, its channel with it
Collect(h, m, held) ==
  [a \in DOMAIN h |->
     IF a \in held \/ (\E k \in DOMAIN m : m[k] = a)
       THEN h[a]
       ELSE [h[a] EXCEPT !.Channel = <<>>, !.ConnectedWith = ""]]

\* lines 203-205: Pragma, delete(peers, peerID), 200
SignoutDelete(p) ==
  /\ Scheduled(p)
  /\ pc[p] = "so_delete"
  /\ peers' = MapDelete(peers, loc[p].peerID)
  /\ heap' = Collect(heap, peers', HeldByOthers(p))
  /\ Reply(Response("signout", StatusOK, loc[p].peerID, <<>>))
  /\ Return(p)
  /\ UNCHANGED <<peerIDCount, peerMutex>>

\* ---------------------------------------------------------------- message
\* a test that takes every peer for unpaired
UnpairedAlways(h, a) == TRUE
\* lines 235 and 240: a message pairs a peer only when this holds
Unpaired(h, a) == h[a].ConnectedWith = ""

\* a test that reports a channel full one entry early
IsFullOneEarly(h, a) == Len(h[a].Channel) >= peerMessageBufferSize - 1
\* line 258: len(to.Channel) == cap(to.Channel)
IsFull(h, a) == Len(h[a].Channel) = peerMessageBufferSize

\* lines 245-262: what comes after the pairing (the warning of line 245 changes
\* nothing): the 503 of a backed up recipient, or the send
AfterPairing(h, to) == IF IsFull(h, to) THEN "msg_full" ELSE "msg_send"
\* a handler that writes the recipient's ConnectedWith whatever it holds
AfterFromAlwaysSets(h, to) == "msg_setto"
\* a handler that pairs the sender only
AfterFromSkipsTo(h, to) == AfterPairing(h, to)
\* lines 240-262
AfterFrom(h, to) == IF Unpaired(h, to) THEN "msg_setto" ELSE AfterPairing(h, to)
\* a handler that does not pair the sender
AfterLookupSkipsFrom(h, from, to) == AfterFrom(h, to)
\* lines 235-262
AfterLookup(h, from, to) == IF Unpaired(h, from) THEN "msg_setfrom" ELSE AfterFrom(h, to)

\* lines 249 and 259: Pragma is set before the 503
BackedUp(peerID) ==
  HttpErrorWith("message", "Peer is backed up", StatusServiceUnavailable, peerID)

\* the message handler of p goes on to nxt, which ends it when it is msg_full
MsgGoto(p, nxt) ==
  IF nxt = "msg_full"
    THEN Reply(BackedUp(loc[p].peerID)) /\ Return(p)
    ELSE pc' = [pc EXCEPT ![p] = nxt] /\ Quiet /\ UNCHANGED loc

\* lines 212-235 (and on to the first write): method, peer_id and to, the two
\* lookups
StartMessage(p, r) ==
  /\ Idle(p)
  /\ r.handler = "message"
  /\ Accept(r)
  /\ IF r.method # "POST"
       THEN Refuse(HttpError("message", "Bad request", StatusBadRequest))
       ELSE IF peerIDParamName \notin DOMAIN r.query \/ toParamName \notin DOMAIN r.query
         THEN Refuse(HttpError("message", "Missing Peer or To ID", StatusBadRequest))
         ELSE IF r.query[peerIDParamName] \notin DOMAIN peers \/ r.query[toParamName] \notin DOMAIN peers
           THEN Refuse(HttpError("message", "Invalid Peer or To ID", StatusBadRequest))
           ELSE LET from == peers[r.query[peerIDParamName]]
                    to == peers[r.query[toParamName]]
                    nxt == AfterLookup(heap, from, to) IN
                /\ budget.msgs > 0
                /\ budget' = [budget EXCEPT !.msgs = @ - 1]
                /\ IF nxt = "msg_full"
                     THEN /\ resp' = BackedUp(r.query[peerIDParamName])
                          /\ UNCHANGED <<pc, loc>>
                     ELSE /\ resp' = NoResp
                          /\ pc' = [pc EXCEPT ![p] = nxt]
                          /\ loc' = [loc EXCEPT ![p] =
                                       [NoLoc EXCEPT !.op = "message",
                                                     !.peerID = r.query[peerIDParamName],
                                                     !.from = from, !.to = to, !.body = r.body]]
                /\ UNCHANGED <<peerIDCount, peerMutex, peers, heap>>

\* line 237: from.ConnectedWith = to.ID
MsgSetFrom(p) ==
  /\ Scheduled(p)
  /\ pc[p] = "msg_setfrom"
  /\ heap' = [heap EXCEPT ![loc[p].from].ConnectedWith = heap[loc[p].to].ID]
  /\ MsgGoto(p, AfterFrom(heap', loc[p].to))
  /\ UNCHANGED <<peerIDCount, peerMutex, peers>>

\* line 242: to.ConnectedWith = from.ID
MsgSetTo(p) ==
  /\ Scheduled(p)
  /\ pc[p] = "msg_setto"
  /\ heap' = [heap EXCEPT ![loc[p].to].ConnectedWith = heap[loc[p].from].ID]
  /\ MsgGoto(p, AfterPairing(heap', loc[p].to))
  /\ UNCHANGED <<peerIDCount, peerMutex, peers>>

\* a message that carries the id of its recipient
RelayedWithRecipientID(h, l) == PeerMsg(h[l.to].ID, l.body)
\* line 262: &peerMsg{peerID[0], requestString}, l the locals of the handler
Relayed(h, l) == PeerMsg(l.peerID, l.body)

\* lines 262-265: to.Channel <- message, then 200; a send on a full channel
\* waits
MsgSend(p) ==
  /\ Scheduled(p)
  /\ pc[p] = "msg_send"
  /\ CanSend(heap, loc[p].to)
  /\ heap' = ChanSend(heap, loc[p].to, Relayed(heap, loc[p]))
  /\ Reply(Response("message", StatusOK, loc[p].peerID, <<>>))
  /\ Return(p)
  /\ UNCHANGED <<peerIDCount, peerMutex, peers>>

\* ------------------------------------------------------------------- wait
\* lines 271-291: method, peer_id, lookup
StartWait(p, r) ==
  /\ Idle(p)
  /\ r.handler = "wait"
  /\ Accept(r)
  /\ IF r.method # "GET"
       THEN Refuse(HttpError("wait", "Bad request", StatusBadRequest))
       ELSE IF peerIDParamName \notin DOMAIN r.query
         THEN Refuse(HttpError("wait", "Missing Peer ID", StatusBadRequest))
         ELSE IF r.query[peerIDParamName] \notin DOMAIN peers
           THEN Refuse(HttpError("wait", "Unknown peer", StatusBadRequest))
           ELSE /\ loc' = [loc EXCEPT ![p] = [NoLoc EXCEPT !.op = "wait",
                                                             !.peerID = r.query[peerIDParamName],
                                                             !.me = peers[r.query[peerIDParamName]]]]
                /\ pc' = [pc EXCEPT ![p] = "wait_recv"]
                /\ resp' = NoResp
                /\ UNCHANGED <<peerIDCount, peerMutex, peers, heap, budget>>

\* lines 295-297: the response built from the entry received
WaitResponse(m) == Response("wait", StatusOK, m.FromID, <<m.Message>>)

\* a response written to a connection the client has closed reaches nobody
\* (line 298 prints the error, if any)
Delivered(l, r) == IF l.gone THEN NoResp ELSE r

\* lines 294-297: peerMsg := <-peerInfo.Channel waits for an entry, then 200;
\* the receive has no other case, so it waits on whether or not the client is
\* still there
WaitReceive(p) ==
  /\ Scheduled(p)
  /\ pc[p] = "wait_recv"
  /\ CanRecv(heap, loc[p].me)
  /\ Reply(Delivered(loc[p], WaitResponse(Dequeued(heap[loc[p].me].Channel))))
  /\ heap' = ChanRecv(heap, loc[p].me)
  /\ Return(p)
  /\ UNCHANGED <<peerIDCount, peerMutex, peers>>

\* ------------------------------------------------------------- scheduling
\* the ids the requests of the clients name
RequestIDs == IDsUpTo(peerIDCount) \cup (IF budget.strict THEN {} ELSE {UnknownID})

\* a client makes a request and its handler starts, or a handler takes its
\* next step.  Under Spec one slot serves all requests: a request is made when
\* the one before has been answered (a wait on an empty channel is never
\* answered)
Next ==
  \E p \in Procs :
    \/ Idle(p) /\ \E r \in SigninRequests(budget.strict) : StartSignin(p, r)
    \/ SigninIncr(p)
    \/ SigninPublish(p)
    \/ SigninRange(p)
    \/ SigninSend(p)
    \/ Idle(p) /\ \E r \in SignoutRequests(RequestIDs, budget.strict) : StartSignout(p, r)
    \/ SignoutClear(p)
    \/ SignoutDelete(p)
    \/ Idle(p) /\ \E r \in MessageRequests(RequestIDs, budget.strict, budget.msgs) : StartMessage(p, r)
    \/ MsgSetFrom(p)
    \/ MsgSetTo(p)
    \/ MsgSend(p)
    \/ Idle(p) /\ \E r \in WaitRequests(RequestIDs, budget.strict) : StartWait(p, r)
    \/ WaitReceive(p)

Spec == Init /\ [][Next]_vars

\* a step of the handler that serves in slot p: once a request is accepted the
\* Go scheduler runs its goroutine whenever it can go on
Step(p) ==
  \/ SigninIncr(p) \/ SigninPublish(p) \/ SigninRange(p) \/ SigninSend(p)
  \/ SignoutClear(p) \/ SignoutDelete(p)
  \/ MsgSetFrom(p) \/ MsgSetTo(p) \/ MsgSend(p)
  \/ WaitReceive(p)

\* SpecFair: Spec, where no handler that can take a step waits forever; the
\* clients need not make any request
SpecFair == Init /\ [][Next]_vars /\ \A p \in Procs : WF_vars(Step(p))

\* the steps that write the map peers (lines 145 and 204) and those that read it
MapWriter(p) == pc[p] \in {"si_publish", "so_delete"}
MapReader(p) == pc[p] \in {"idle", "si_range"}

\* the Go runtime stops the process when it detects a map write that overlaps
\* another access of the map ("fatal error: concurrent map writes", "concurrent
\* map read and map write", "concurrent map iteration and map write"); an idle
\* slot stands for a request whose lookup of peers is about to run
MapRaceFatal ==
  /\ ~crashed
  /\ \E p \in cur, q \in cur :
       p # q /\ MapWriter(p) /\ (MapWriter(q) \/ MapReader(q))
  /\ crashed' = TRUE
  /\ resp' = NoResp
  /\ UNCHANGED <<peerIDCount, peerMutex, peers, heap, pc, loc, budget, cur, pre>>

\* the client of a wait that is suspended on an empty channel closes its
\* connection; waitHandler (269-303) reads neither req.Context() nor
\* CloseNotify, so its goroutine stays where it is
Disconnect ==
  /\ ~crashed
  /\ \E p \in Procs :
       /\ pc[p] = "wait_recv" /\ ~loc[p].gone
       /\ Len(heap[loc[p].me].Channel) = 0
       /\ loc' = [loc EXCEPT ![p].gone = TRUE]
  /\ resp' = NoResp
  /\ UNCHANGED <<peerIDCount, peerMutex, peers, heap, pc, budget, cur, pre, crashed>>

\* SpecConc: the slots of Pool serve, the steps of the handlers interleave, and
\* clients may hang up
NextConc == Next \/ MapRaceFatal \/ Disconnect

SpecConc == InitConc /\ [][NextConc]_vars

\* SpecConcFair: every slot serves a smaller workload than SpecConc's, and no
\* handler that can take a step waits forever
SpecConcFair == InitConcFair /\ [][NextConc]_vars /\ \A p \in Procs : WF_vars(Step(p))

\* the handler of p waits: on a receive from an empty channel or on a send to
\* a full one
Blocked(p) ==
  \/ pc[p] = "wait_recv" /\ Len(heap[loc[p].me].Channel) = 0
  \/ pc[p] = "si_send" /\ ~CanSend(heap, loc[p].pInfo)
  \/ pc[p] = "msg_send" /\ ~CanSend(heap, loc[p].to)

TypeOK ==
  /\ peerIDCount \in 0 .. MaxPeers
  /\ peerMutex \in 0 .. NProcs
  /\ \A k \in DOMAIN peers : peers[k] \in Addrs
  /\ Len(heap) <= MaxPeers
  /\ \A a \in Addrs : Len(heap[a].Channel) <= peerMessageBufferSize
  /\ cur \in SUBSET Procs
  /\ crashed \in BOOLEAN

\* ------------------------------------------------------------------ claims
\* the last step answered a request to handler op with 200
Answered(op) == resp.op = op /\ resp.status = StatusOK

\* the peerInfo registered under id when the last request was made, and now
Before(id) == pre.heap[pre.peers[id]]
Now(id) == heap[peers[id]]

\* C1: the ids of the peerInfo objects ever registered, removed ones included,
\* are pairwise distinct under every interleaving of the handlers, and the id a
\* sign-in hands out in its response is the id of such an object
IDsPairwiseDistinct ==
  /\ \A a \in Addrs, b \in Addrs : a # b => heap[a].ID # heap[b].ID
  /\ Answered("signin") => \E a \in Addrs : heap[a].ID = resp.pragma

\* two sign-ins run at the same time and both have their ids
ConcurrentSignins ==
  \E p \in Procs, q \in Procs :
    /\ p # q
    /\ loc[p].op = "signin" /\ loc[p].ID # ""
    /\ loc[q].op = "signin" /\ loc[q].ID # ""

\* the line that lists the peer id of name in the body of a sign-in, as line
\* 169 writes it
Listing(name, id) == Sprintf(PeerLine(name, id))

\* the peers a newcomer of role kind is to be told about: registered when it
\* made its request, of the other role, not paired
Counterparts(kind) ==
  {k \in DOMAIN pre.peers : Before(k).Kind # kind /\ Before(k).ConnectedWith = ""}

\* C2: the body of a successful sign-in is the newcomer's own line followed by
\* one line for each registered, unpaired peer of the other role, and no other
SigninListsCounterparts ==
  Answered("signin") =>
    LET me == Now(resp.pragma)
        listed == Tail(resp.body)
        due == {Listing(Before(k).Name, k) : k \in Counterparts(me.Kind)} IN
      /\ Head(resp.body) = Listing(me.Name, me.ID)
      /\ {listed[i] : i \in DOMAIN listed} = due
      /\ Len(listed) = Cardinality(due)

\* a sign-in is answered while a paired peer of the other role, a peer of the
\* same role and an unpaired peer of the other role are registered
SigninAmongPairedPeers ==
  /\ Answered("signin")
  /\ \E k \in DOMAIN pre.peers :
       Before(k).Kind # Now(resp.pragma).Kind /\ Before(k).ConnectedWith # ""
  /\ \E k \in DOMAIN pre.peers : Before(k).Kind = Now(resp.pragma).Kind

\* the descriptor lines the server can produce
Lines == {PeerLine(n, i) : n \in AllNames, i \in IDsUpTo(MaxPeers)}

\* the id a line describes
LineID(line) == CHOOSE i \in IDsUpTo(MaxPeers) : \E n \in AllNames : line = PeerLine(n, i)

\* after a sign-in every counterpart with room holds one more entry, the
\* newcomer's line, and a receive that returns a line reports as its origin:
\* the id of the peer that receives (own), or else the id the line describes
NoticesCarry(own) ==
  /\ Answered("signin") =>
       \A k \in Counterparts(Now(resp.pragma).Kind) :
         Len(Before(k).Channel) < peerMessageBufferSize =>
           Now(k).Channel = Append(Before(k).Channel,
                                   PeerMsg(IF own THEN k ELSE resp.pragma,
                                           PeerLine(Now(resp.pragma).Name, resp.pragma)))
  /\ Answered("wait") /\ Head(resp.body) \in Lines =>
       resp.pragma = IF own THEN pre.req.query[peerIDParamName] ELSE LineID(Head(resp.body))

\* C3 (as the code has it): on a sign-in every eligible counterpart with room
\* gets one new entry whose payload is the newcomer's line and whose FromID is
\* the counterpart's own id, so its receive of that entry reports its own id
NoticeOriginIsRecipient == NoticesCarry(TRUE)

\* C3 (as stated): the entry's FromID is the newcomer's id, and the receive of
\* that entry reports the newcomer's id
NoticeOriginIsNewcomer == NoticesCarry(FALSE)

\* a peer receives the notice of a sign-in
NoticeReceived == Answered("wait") /\ Head(resp.body) \in Lines

\* the sender and the recipient the last request names
Sender == pre.req.query[peerIDParamName]
Recipient == pre.req.query[toParamName]

\* the last request was a message between two registered peers
MessageMade ==
  /\ pre.req.handler = "message" /\ pre.req.method = "POST"
  /\ DOMAIN pre.req.query = {peerIDParamName, toParamName}
  /\ Sender \in DOMAIN pre.peers /\ Recipient \in DOMAIN pre.peers

\* the message handler has answered that request with 200 or 503
MessageProcessed ==
  MessageMade /\ resp.op = "message" /\ resp.status \in {StatusOK, StatusServiceUnavailable}

\* the bodies of the messages the clients send from i to j
Bodies(i, j) == {BodyOf(MsgQuery(i, j), n) : n \in 1 .. MaxMsgs}

\* C4: a message from A to B answered with 200 is at the back of B's channel
\* with FromID A; a receive answers with the entry at the front of its peer's
\* channel, body and FromID; so a body sent from A to B comes out of a receive
\* on B, alone, with origin A
RelayedIntact ==
  /\ Answered("message") =>
       Now(Recipient).Channel = Append(Before(Recipient).Channel, PeerMsg(Sender, pre.req.body))
  /\ Answered("wait") =>
       /\ Before(Sender).Channel # <<>>
       /\ resp.pragma = Head(Before(Sender).Channel).FromID
       /\ resp.body = <<Head(Before(Sender).Channel).Message>>
       /\ \A i \in IDsUpTo(MaxPeers), j \in IDsUpTo(MaxPeers) :
            Head(resp.body) \in Bodies(i, j) => resp.pragma = i /\ Sender = j

\* a receive on B returns a message of another peer A
MessageReceived ==
  /\ Answered("wait")
  /\ \E i \in IDsUpTo(MaxPeers) : i # Sender /\ Head(resp.body) \in Bodies(i, Sender)

\* what one step does to the channel of the peerInfo at a: nothing, or it
\* appends one entry, or it removes the first entry, which a receive returns
\* (to its client, if that is still there),
\* or the peerInfo is gone from the map and its channel with it
FifoStep(a) ==
  \/ heap'[a].Channel = heap[a].Channel
  \/ /\ Len(heap'[a].Channel) = Len(heap[a].Channel) + 1
     /\ SubSeq(heap'[a].Channel, 1, Len(heap[a].Channel)) = heap[a].Channel
  \/ /\ heap[a].Channel # <<>>
     /\ heap'[a].Channel = Tail(heap[a].Channel)
     /\ \E p \in Procs :
          /\ pc[p] = "wait_recv" /\ loc[p].me = a /\ pc'[p] = "idle"
          /\ resp' = Delivered(loc[p],
                               Response("wait", StatusOK, Head(heap[a].Channel).FromID,
                                        <<Head(heap[a].Channel).Message>>))
  \/ /\ \A k \in DOMAIN peers' : peers'[k] # a
     /\ heap'[a].Channel = <<>>

\* C5: under every interleaving a channel holds its entries in the order they
\* were sent, messages and notices alike: a step adds an entry only behind all
\* others, and removes only the first one, which is the one a receive returns;
\* so no entry is delivered before one that was enqueued earlier
MailboxesAreFifo == [][\A a \in Addrs : FifoStep(a)]_vars

\* a peer has received the notice at the front of its channel while an entry
\* that was sent later waits behind it
FirstOfTwoReceived ==
  /\ Answered("wait") /\ Head(resp.body) \in Lines
  /\ resp.pragma \in DOMAIN peers /\ Now(resp.pragma).Channel # <<>>

\* C6: a message from A to B that is processed while both are registered and
\* unpaired leaves A paired with B and B paired with A
SendPairsBoth ==
  MessageProcessed /\ Before(Sender).ConnectedWith = "" /\ Before(Recipient).ConnectedWith = "" =>
    Now(Sender).ConnectedWith = Recipient /\ Now(Recipient).ConnectedWith = Sender

\* a message between two different unpaired peers has been processed
UnpairedPeersMessaged ==
  /\ MessageProcessed /\ Sender # Recipient
  /\ Before(Sender).ConnectedWith = "" /\ Before(Recipient).ConnectedWith = ""

\* the last request was a sign-out of a registered peer, which has been answered
SignedOut == Answered("signout") /\ Sender \in DOMAIN pre.peers

\* C7: when A signs out while A and B are paired with each other, B is left
\* unpaired; and a message from an unpaired B to a registered C pairs B with C
SignoutFreesPartner ==
  /\ SignedOut =>
       \A b \in DOMAIN pre.peers \ {Sender} :
         Before(Sender).ConnectedWith = b /\ Before(b).ConnectedWith = Sender =>
           Now(b).ConnectedWith = ""
  /\ MessageProcessed /\ Before(Sender).ConnectedWith = "" =>
       Now(Sender).ConnectedWith = Recipient

\* the entries of a channel that are messages of peers that have signed out
FromRemoved(ch) ==
  {i \in DOMAIN ch : ch[i].FromID \notin DOMAIN peers /\ ch[i].Message \notin Lines}

\* three peers have signed in, A has sent the first message of the run to B,
\* A has signed out, and B has then sent a message to C
PartnerPairedAnew ==
  /\ Len(heap) = MaxPeers /\ budget.msgs = 0 /\ budget.outs = 0
  /\ Answered("message") /\ Sender # Recipient
  /\ FromRemoved(Before(Sender).Channel) # {}
  /\ Before(Sender).ConnectedWith = "" /\ Now(Sender).ConnectedWith = Recipient

\* C8 (as stated): the ConnectedWith of every registered peer is empty or the
\* id of a registered peer
PairedWithRegistered ==
  \A k \in DOMAIN peers : Now(k).ConnectedWith = "" \/ Now(k).ConnectedWith \in DOMAIN peers

\* C9: a message to a registered peer P is answered by what P's channel held
\* when it was made: with fewer than peerMessageBufferSize entries, 200 and the
\* message is the new last entry; with peerMessageBufferSize entries, 503 and
\* the channel is as it was.  So of peerMessageBufferSize + 1 messages to an
\* empty channel all but the last are answered 200
BackpressureAtCapacity ==
  MessageMade /\ resp.op = "message" =>
    IF Len(Before(Recipient).Channel) < peerMessageBufferSize
      THEN /\ resp.status = StatusOK
           /\ Now(Recipient).Channel = Append(Before(Recipient).Channel, PeerMsg(Sender, pre.req.body))
      ELSE /\ resp.status = StatusServiceUnavailable
           /\ Now(Recipient).Channel = Before(Recipient).Channel

\* peerMessageBufferSize messages in a row have filled P's channel, and one
\* more has been answered 503
OneMessageTooMany ==
  /\ MessageMade /\ resp.status = StatusServiceUnavailable
  /\ Len(Before(Recipient).Channel) = peerMessageBufferSize
  /\ \A i \in DOMAIN Before(Recipient).Channel :
       Before(Recipient).Channel[i].Message \notin Lines
  /\ budget.msgs = MaxMsgs - (peerMessageBufferSize + 1)

\* C10 (as stated): a message handler never waits at its send: when it reaches
\* line 262 the channel has room
SendNeverWaits == \A p \in Procs : pc[p] = "msg_send" => CanSend(heap, loc[p].to)

\* C11 (as stated): a message answered 503 leaves every peer as it was: the
\* map, and the ConnectedWith and the channel of every peerInfo
BackedUpChangesNothing ==
  MessageMade /\ resp.op = "message" /\ resp.status = StatusServiceUnavailable =>
    peers = pre.peers /\ heap = pre.heap

\* C12 (as stated): under every interleaving a sign-in with a name is answered
\* 200 for a peerInfo it has registered, and its handler never waits at the
\* send of a notice: when it reaches line 161 the channel has room
SigninNeverWaits ==
  /\ resp.op = "signin" /\ budget.strict =>
       resp.status = StatusOK /\ \E a \in Addrs : heap[a].ID = resp.pragma
  /\ \A p \in Procs : pc[p] = "si_send" => CanSend(heap, loc[p].pInfo)

\* the last request was a message of a sender that was paired with a peer
\* other than the recipient
MessageOutsidePairing ==
  /\ MessageMade /\ resp.op = "message"
  /\ Before(Sender).ConnectedWith \notin {"", Recipient}

\* C13: a message from A to a registered C while A is paired with another peer
\* B is not refused for that: it is answered 200 and is the new last entry of
\* C's channel when that had room, and A stays paired with B
PairingIsAdvisory ==
  MessageOutsidePairing =>
    /\ resp.status # StatusBadRequest
    /\ Len(Before(Recipient).Channel) < peerMessageBufferSize =>
         /\ resp.status = StatusOK
         /\ Now(Recipient).Channel =
              Append(Before(Recipient).Channel, PeerMsg(Sender, pre.req.body))
    /\ Now(Sender).ConnectedWith = Before(Sender).ConnectedWith

\* A, paired with a registered B, has sent a message to a third peer C
SentOutsidePairing ==
  /\ MessageOutsidePairing /\ resp.status = StatusOK
  /\ Before(Sender).ConnectedWith \in DOMAIN peers \ {Sender}
  /\ Recipient # Sender

\* the peer k, registered when the last request, a sign-in, was made, is not in
\* the list of its response and has got no notice
NotAdvertised(k) ==
  /\ \A i \in DOMAIN resp.body : resp.body[i] # Listing(Before(k).Name, k)
  /\ Now(k).Channel = Before(k).Channel

\* the peers that had sent a message and were registered when the last request
\* was made
RegisteredSenders == pre.sent \cap DOMAIN pre.peers

\* C14 (as stated): a peer that has sent a message is, while it stays
\* registered, neither listed by a later sign-in nor sent its notice
SenderNeverAdvertised ==
  Answered("signin") => \A k \in RegisteredSenders : NotAdvertised(k)

\* a step empties the ConnectedWith of a registered peer only if it is the step
\* of line 199 of a sign-out
OnlySignoutUnpairs ==
  \A k \in DOMAIN peers \cap DOMAIN peers' :
    heap[peers[k]].ConnectedWith # "" /\ heap'[peers'[k]].ConnectedWith = "" =>
      \E p \in Procs : pc[p] = "so_clear" /\ pc'[p] = "so_delete"

\* C14 (as the code has it): a peer is paired when its message has been
\* answered 200, it stays paired until the sign-out of another peer empties its
\* ConnectedWith, and while it is paired no sign-in lists it or sends it a notice
SenderAdvertisedOnlyWhenFreed ==
  /\ [](Answered("message") => Now(Sender).ConnectedWith # "")
  /\ [][OnlySignoutUnpairs]_vars
  /\ [](Answered("signin") =>
         \A k \in RegisteredSenders : Before(k).ConnectedWith # "" => NotAdvertised(k))

\* a peer signs in while a peer of the other role that has sent a message, and
\* is still paired, is registered
SigninPastPairedSender ==
  /\ Answered("signin")
  /\ \E k \in RegisteredSenders :
       Before(k).ConnectedWith # "" /\ Before(k).Kind # Now(resp.pragma).Kind

\* the ids the last request names as peer_id or to
NamedIDs ==
  {pre.req.query[k] : k \in DOMAIN pre.req.query \cap {peerIDParamName, toParamName}}

\* the last request is a sign-out, a message or a wait that names an id that was
\* not registered when it was made
NamesUnknownPeer ==
  /\ pre.req.handler \in {"signout", "message", "wait"}
  /\ \E id \in NamedIDs : id \notin DOMAIN pre.peers

\* C15: a sign-out, a message or a wait that names an id that is not registered
\* is answered 400 at once and leaves the registry, the channels and every
\* ConnectedWith as they were
UnknownPeerRefused ==
  NamesUnknownPeer =>
    /\ resp.op = pre.req.handler /\ resp.status = StatusBadRequest
    /\ peers = pre.peers /\ heap = pre.heap
    /\ \A p \in Procs : pc[p] = "idle"

\* a message from a registered peer to one that has signed out is refused while
\* some registered peer has an entry in its channel
SendToSignedOutRefused ==
  /\ pre.req.handler = "message" /\ NamesUnknownPeer
  /\ Sender \in DOMAIN pre.peers
  /\ Recipient \in IDsUpTo(peerIDCount)
  /\ resp.status = StatusBadRequest
  /\ \E k \in DOMAIN peers : Now(k).Channel # <<>>

\* C16: a sign-out of a registered peer is answered 200 with that peer's id as
\* Pragma and removes that peer only: every other peer stays registered, the
\* same peerInfo with the same entries in its channel
SignoutRemovesOnlyItsPeer ==
  SignedOut =>
    /\ resp.pragma = Sender
    /\ DOMAIN peers = DOMAIN pre.peers \ {Sender}
    /\ \A k \in DOMAIN peers :
         /\ peers[k] = pre.peers[k]
         /\ Now(k).Channel = Before(k).Channel
         /\ Now(k).ID = k /\ Now(k).Name = Before(k).Name /\ Now(k).Kind = Before(k).Kind

\* a peer has signed out while another peer had an entry in its channel
SignedOutBesideMail ==
  /\ SignedOut
  /\ \E k \in DOMAIN pre.peers \ {Sender} : Before(k).Channel # <<>>

\* the last request is a sign-in whose query has no key with an empty value
NamelessSignin ==
  /\ pre.req.handler = "signin"
  /\ \A k \in DOMAIN pre.req.query : pre.req.query[k] # ""

\* C17: a sign-in without a name is answered 400 at once; it registers no peer,
\* takes no id from the counter and puts no notice into any channel
NamelessSigninRefused ==
  NamelessSignin =>
    /\ resp.op = "signin" /\ resp.status = StatusBadRequest
    /\ peers = pre.peers /\ heap = pre.heap /\ peerIDCount = pre.count
    /\ \A p \in Procs : pc[p] = "idle"

\* a sign-in whose only key has a value is refused while an unpaired peer, which
\* a sign-in of the other role would notify, is registered
NamelessAmongPeers ==
  /\ NamelessSignin /\ pre.req.method = "GET" /\ DOMAIN pre.req.query # {}
  /\ resp.status = StatusBadRequest
  /\ \E k \in DOMAIN pre.peers : Before(k).ConnectedWith = ""

\* C18: the body of a successful sign-in starts with the line "name,id,1" of
\* the new peer, where name is the name the request gave and id is the Pragma
\* of the response and the key under which the peer is registered
SigninAnswersOwnLine ==
  Answered("signin") =>
    \E name \in {k \in DOMAIN pre.req.query : pre.req.query[k] = ""} :
      /\ Head(resp.body) = name \o "," \o resp.pragma \o ",1" \o "\n"
      /\ resp.pragma \in DOMAIN peers
      /\ Now(resp.pragma).ID = resp.pragma
      /\ Now(resp.pragma).Name = name

\* the role each name of the requests stands for: only renderingserver_bob
\* starts with renderingserver_
RoleOf(name) == IF name = "renderingserver_bob" THEN server ELSE client

\* C19: a peer whose name starts with renderingserver_ is a server and any
\* other peer a client, and no step changes the name or the role of a peer
RoleFollowsPrefix ==
  /\ [](\A a \in Addrs : heap[a].Name \in AllNames /\ heap[a].Kind = RoleOf(heap[a].Name))
  /\ [][\A a \in Addrs : heap'[a].Name = heap[a].Name /\ heap'[a].Kind = heap[a].Kind]_vars

\* a server and a peer with renderingserver_ inside its name are registered,
\* and the latter has been messaged and paired
BothRolesRegistered ==
  \E i, j \in DOMAIN peers :
    /\ Now(i).Name = "renderingserver_bob" /\ Now(i).Kind = server
    /\ Now(j).Name = "my_renderingserver_%d" /\ Now(j).Kind = client
    /\ Now(j).ConnectedWith = i

\* the last request made was made by the peer id
RequestBy(id) ==
  peerIDParamName \in DOMAIN pre.req.query /\ pre.req.query[peerIDParamName] = id

\* a wait of the peer id is suspended
Suspended(id) == \E p \in Procs : pc[p] = "wait_recv" /\ loc[p].peerID = id

\* the peer id is registered, the last request was not its own, and it is not
\* suspended in a wait
Stale(id) == id \in DOMAIN peers /\ ~RequestBy(id) /\ ~Suspended(id)

\* C20 (as stated): a registered peer that makes no more request and is not
\* suspended in a wait does not stay in the registry, while no step but the
\* delete of a sign-out removes a peer that is suspended in a wait
StalePeersSwept ==
  /\ \A id \in IDsUpTo(MaxPeers) : ~<>[]Stale(id)
  /\ [][\A id \in DOMAIN peers :
          Suspended(id) /\ id \notin DOMAIN peers' => \E p \in Procs : pc[p] = "so_delete"]_vars

\* C21 (as stated): a wait whose client has closed the connection takes no
\* entry from the channel of its peer and writes no response
AbandonedWaitTakesNothing ==
  [][\A p \in Procs :
       loc[p].gone /\ pc'[p] # pc[p] =>
         /\ heap'[loc[p].me].Channel = heap[loc[p].me].Channel
         /\ resp' = NoResp]_vars

\* C22: under every interleaving the channel of every peer, registered or
\* removed, holds at most peerMessageBufferSize entries
MailboxWithinCapacity ==
  \A a \in Addrs : Len(heap[a].Channel) <= peerMessageBufferSize

\* a message that passed the test of line 258 waits at its send, the channel of
\* its registered recipient having been filled in between
SenderWaitsAtFullMailbox ==
  \E p \in Procs :
    /\ pc[p] = "msg_send"
    /\ \E k \in DOMAIN peers : peers[k] = loc[p].to
    /\ Len(heap[loc[p].to].Channel) = peerMessageBufferSize

\* the wait in slot p, its client still there, is suspended on a peer that has
\* been removed from the registry
WaitsOnRemoved(p) ==
  pc[p] = "wait_recv" /\ ~loc[p].gone /\ loc[p].peerID \notin DOMAIN peers

\* C23 (as stated): a wait that is suspended on a peer when that peer is signed
\* out comes to an end (if its client does not hang up before)
WaitEndsWhenPeerRemoved ==
  \A p \in Procs : WaitsOnRemoved(p) ~> (pc[p] # "wait_recv" \/ loc[p].gone)

\* a step changes a ConnectedWith that is not empty, of a peer that stays
\* registered, only by emptying it at line 199 of a sign-out
PairingOnlyCleared ==
  \A k \in DOMAIN peers \cap DOMAIN peers' :
    LET old == heap[peers[k]].ConnectedWith
        new == heap'[peers'[k]].ConnectedWith IN
      old # "" /\ new # old =>
        new = "" /\ \E p \in Procs : pc[p] = "so_clear" /\ pc'[p] = "so_delete"

SignoutClearsOnlyItsPartners ==
  SignedOut =>
    \A b \in DOMAIN peers :
      Before(b).ConnectedWith \in DOMAIN pre.peers \ {Sender, b} =>
        Now(b).ConnectedWith = Before(b).ConnectedWith

\* the wait in slot p ends in this step, and the step takes the first entry out
\* of the channel of its peer, that entry being what the wait returns
TakesFirst(p) ==
  LET a == loc[p].me
      first == Head(heap[a].Channel) IN
    /\ pc[p] = "wait_recv" /\ pc'[p] = "idle"
    /\ heap[a].Channel # <<>>
    /\ heap'[a].Channel = Tail(heap[a].Channel)
    /\ resp' = Delivered(loc[p], Response("wait", StatusOK, first.FromID, <<first.Message>>))
    /\ \A q \in Procs \ {p} : pc'[q] = pc[q]

\* C26: under every interleaving each wait that ends takes one entry out of the
\* channel and returns that entry, no other wait ends in the same step, and an
\* entry leaves a channel only so (or with its peer, once that is removed); an
\* entry is hence returned at most once, and no more entries are returned than
\* were sent
EntryDeliveredOnce ==
  [][/\ \A p \in Procs : pc[p] = "wait_recv" /\ pc'[p] # "wait_recv" => TakesFirst(p)
     /\ \A a \in Addrs :
          Len(heap'[a].Channel) < Len(heap[a].Channel) =>
            \/ \E p \in Procs : loc[p].me = a /\ TakesFirst(p)
            \/ \A k \in DOMAIN peers' : peers'[k] # a
     /\ resp'.op = "wait" /\ resp'.status = StatusOK /\ resp' # resp =>
          \E p \in Procs : TakesFirst(p)]_vars

\* a wait on a peer has been answered with the notice at the front of the
\* channel while another wait on the same peer is about to take the next entry
TwoWaitsOnOnePeer ==
  /\ resp.op = "wait" /\ resp.status = StatusOK /\ Head(resp.body) \in Lines
  /\ \E p \in Procs :
       /\ pc[p] = "wait_recv" /\ ~loc[p].gone
       /\ loc[p].peerID = resp.pragma
       /\ heap[loc[p].me].Channel # <<>>

\* the wait in slot p is at its receive, its peer is registered and the peer's
\* channel holds an entry: the wait was made on a channel that was not empty,
\* or it was suspended and a send to its peer has succeeded since
WaitHasMail(p) ==
  /\ pc[p] = "wait_recv"
  /\ loc[p].peerID \in DOMAIN peers
  /\ heap[loc[p].me].Channel # <<>>

\* C27: when every handler that can take a step takes one, a wait on a
\* registered peer whose channel holds an entry does not stay suspended: it
\* ends, taking an entry, unless other waits on that peer have taken every
\* entry before it
WaitWithMailReturns ==
  \A p \in Procs :
    WaitHasMail(p) ~> (pc[p] # "wait_recv" \/ heap[loc[p].me].Channel = <<>>)
====
